---- MODULE Spec2Model ----
(***************************************************************************)
(* Model of http_wrapper.py: the three stock endpoints (quote, history,    *)
(* search), each a chain of live providers followed by a mock generator.   *)
(*                                                                         *)
(* Numbers.  Money is an integer count of 1/10000 dollar (Scale per        *)
(* dollar), so 175.50 is 1755000 and round(x, 2) rounds to a multiple of   *)
(* 100.  Percentages are integer counts of 0.01 percent.  Factors such as  *)
(* the 2% price variation are basis points (1/10000).  Market              *)
(* capitalisation is counted in millions of dollars.  Three values outside *)
(* the finite range stand for the JSON/float values Infinity, NaN and      *)
(* null.  round() rounds an exact tie to the even cent; the float code may  *)
(* round such a tie either way, one cent apart.                            *)
(*                                                                         *)
(* Strings that the code upper-cases, lower-cases or searches are          *)
(* sequences of one-character strings.                                     *)
(*                                                                         *)
(* Randomness.  The module-level generator of `random` is a deterministic  *)
(* stream fixed by its seed: rng is the stream and the position in it, and *)
(* every random.uniform / random.randint call consumes the next element.   *)
(***************************************************************************)
EXTENDS Integers, Sequences, FiniteSets, TLC

\* ---------------------------------------------------------------- bounds
Res == 4            \* a draw of random() is u / Res with u in 0 .. Res
MaxToday == 1       \* the clock is read as day 0 .. MaxToday
MaxBars == 2        \* entries of a live history response
MaxQuotes == 2      \* entries of a live search response

\* ------------------------------------------------------------- constants
Scale == 10000
PosInf == 2000000001
NaN == 2000000002
Null == 2000000003

\* ------------------------------------------------------------ characters
Lowers == <<"a","b","c","d","e","f","g","h","i","j","k","l","m",
            "n","o","p","q","r","s","t","u","v","w","x","y","z">>
Uppers == <<"A","B","C","D","E","F","G","H","I","J","K","L","M",
            "N","O","P","Q","R","S","T","U","V","W","X","Y","Z">>

IndexIn(c, alphabet) ==
    IF \E k \in 1..Len(alphabet) : alphabet[k] = c
    THEN CHOOSE k \in 1..Len(alphabet) : alphabet[k] = c
    ELSE 0

\* str.upper() and str.lower(), one character at a time
upper(s) ==
    [k \in 1..Len(s) |->
        IF IndexIn(s[k], Lowers) > 0 THEN Uppers[IndexIn(s[k], Lowers)] ELSE s[k]]
lower(s) ==
    [k \in 1..Len(s) |->
        IF IndexIn(s[k], Uppers) > 0 THEN Lowers[IndexIn(s[k], Uppers)] ELSE s[k]]

\* the `in` operator on strings: needle occurs in hay at some offset
contains(needle, hay) ==
    \E off \in 0..(Len(hay) - Len(needle)) :
        \A k \in 1..Len(needle) : hay[off + k] = needle[k]

\* ------------------------------------------------------------ arithmetic
abs(x) == IF x < 0 THEN 0 - x ELSE x

\* floor(x * n / d) for n >= 0, d > 0, without leaving 32 bits
MulDiv(x, n, d) == (x \div d) * n + ((x % d) * n) \div d

RECURSIVE DivDigits(_, _, _, _)
DivDigits(q, r, b, k) ==
    IF k = 0 THEN [q |-> q, r |-> r]
    ELSE DivDigits(q * 10 + (r * 10) \div b, (r * 10) % b, b, k - 1)

\* a * 10^k / b rounded to the nearest integer, ties to even, for b # 0
RoundRatio(a, b, k) ==
    LET aa == IF b < 0 THEN 0 - a ELSE a
        bb == abs(b)
        d  == DivDigits(aa \div bb, aa % bb, bb, k)
    IN  IF 2 * d.r > bb \/ (2 * d.r = bb /\ d.q % 2 = 1) THEN d.q + 1 ELSE d.q

\* round(x, 2) of a finite amount
round2(x) == RoundRatio(x, 100, 0) * 100

IsSpecial(x) == x \in {PosInf, NaN, Null}

\* round(x, 2) of a float: infinities and NaN are returned unchanged
fround2(x) == IF IsSpecial(x) THEN x ELSE round2(x)

\* float subtraction a - b with b finite
fsub(a, b) == IF IsSpecial(a) THEN a ELSE a - b

\* (a / b) * 100 in units of 0.01 percent, b finite and non-zero
fpercent(a, b) ==
    IF a = NaN THEN NaN
    ELSE IF a = PosInf THEN (IF b > 0 THEN PosInf ELSE NaN)
    ELSE RoundRatio(a, b, 4)

\* ---------------------------------------------------------------- random
Streams == << <<0>>, <<Res>>, <<0, Res>>, <<1, Res - 1, 2>> >>

\* the k-th value the generator returns from state g (k = 0 is the next one)
Draw(g, k) ==
    LET s == Streams[g.stream] IN s[((g.pos + k) % Len(s)) + 1]
Advance(g, k) ==
    [g EXCEPT !.pos = (g.pos + k) % Len(Streams[g.stream])]

\* random.uniform(lo, hi) and random.randint(lo, hi) for the draw u / Res
uniform(lo, hi, u) == lo + ((hi - lo) * u) \div Res
randint(lo, hi, u) == lo + ((hi - lo) * u) \div Res

\* --------------------------------------------------------------- catalog
Missing == 2000000004     \* a key the response does not carry
Garbage == 2000000005     \* a string float() cannot parse

chars_Inc == <<" ","I","n","c",".">>
chars_Corporation == <<" ","C","o","r","p","o","r","a","t","i","o","n">>

Catalog ==
  << [symbol |-> <<"A","A","P","L">>,
      name |-> <<"A","p","p","l","e"," ","I","n","c",".">>,
      price |-> 1755000, change |-> 23000, volume |-> 45000000, market_cap |-> 2800000],
     [symbol |-> <<"G","O","O","G","L">>,
      name |-> <<"A","l","p","h","a","b","e","t"," ","I","n","c","."," ","C","l","a","s","s"," ","A">>,
      price |-> 1392500, change |-> -18500, volume |-> 28000000, market_cap |-> 1750000],
     [symbol |-> <<"M","S","F","T">>,
      name |-> <<"M","i","c","r","o","s","o","f","t"," ","C","o","r","p","o","r","a","t","i","o","n">>,
      price |-> 3789000, change |-> 42000, volume |-> 22000000, market_cap |-> 2900000],
     [symbol |-> <<"A","M","Z","N">>,
      name |-> <<"A","m","a","z","o","n",".","c","o","m"," ","I","n","c",".">>,
      price |-> 1428000, change |-> -9500, volume |-> 35000000, market_cap |-> 1500000],
     [symbol |-> <<"T","S","L","A">>,
      name |-> <<"T","e","s","l","a"," ","I","n","c",".">>,
      price |-> 2485000, change |-> 87500, volume |-> 85000000, market_cap |-> 790000],
     [symbol |-> <<"M","E","T","A">>,
      name |-> <<"M","e","t","a"," ","P","l","a","t","f","o","r","m","s"," ","I","n","c",".">>,
      price |-> 2983500, change |-> -21500, volume |-> 18000000, market_cap |-> 750000],
     [symbol |-> <<"N","V","D","A">>,
      name |-> <<"N","V","I","D","I","A"," ","C","o","r","p","o","r","a","t","i","o","n">>,
      price |-> 8753000, change |-> 156000, volume |-> 40000000, market_cap |-> 2100000],
     [symbol |-> <<"N","F","L","X">>,
      name |-> <<"N","e","t","f","l","i","x"," ","I","n","c",".">>,
      price |-> 4257000, change |-> -34500, volume |-> 12000000, market_cap |-> 185000],
     [symbol |-> <<"A","M","D">>,
      name |-> <<"A","d","v","a","n","c","e","d"," ","M","i","c","r","o"," ","D","e","v","i","c","e","s"," ","I","n","c",".">>,
      price |-> 1429000, change |-> 38000, volume |-> 38000000, market_cap |-> 230000],
     [symbol |-> <<"C","R","M">>,
      name |-> <<"S","a","l","e","s","f","o","r","c","e"," ","I","n","c",".">>,
      price |-> 2154000, change |-> 12500, volume |-> 8500000, market_cap |-> 210000] >>

\* `symbol in MOCK_STOCK_DATA` and MOCK_STOCK_DATA[symbol]
InCatalog(cat, symbol) == \E k \in 1..Len(cat) : cat[k].symbol = symbol
Entry(cat, symbol) == cat[CHOOSE k \in 1..Len(cat) : cat[k].symbol = symbol]

\* ------------------------------------------------- get_mock_stock_quote
\* the ranges of the random perturbations
\* a variation of 20% in place of 2%
price_variation_wide(u) == uniform(-2000, 2000, u)
price_variation(u) == uniform(-200, 200, u)
change_variation(u) == uniform(-5000, 5000, u)
unknown_base_price(u) == uniform(50 * Scale, 300 * Scale, u)
unknown_change(u) == uniform(-10 * Scale, 10 * Scale, u)

\* the fields derived from the (unrounded) price and change
mock_change_percent(price, change) == RoundRatio(change, price - change, 4)
mock_previous_close(price, change) == round2(price - change)
mock_open(price, change) == round2(price - MulDiv(change, 3, 10))
\* the day's high without abs(): below the price when the change is negative
mock_high_signed(price, change) == round2(price + MulDiv(change, 7, 10))
mock_high(price, change) == round2(price + abs(MulDiv(change, 7, 10)))
mock_low(price, change) == round2(price - abs(MulDiv(change, 8, 10)))

mock_quote_fields(symbol, name, price, change, volume, market_cap, now) ==
    [symbol |-> symbol,
     name |-> name,
     price |-> round2(price),
     change |-> round2(change),
     change_percent |-> mock_change_percent(price, change),
     previous_close |-> mock_previous_close(price, change),
     open |-> mock_open(price, change),
     high |-> mock_high(price, change),
     low |-> mock_low(price, change),
     volume |-> volume,
     market_cap |-> market_cap,
     currency |-> "USD",
     exchange |-> "NASDAQ/NYSE",
     last_updated |-> now,
     data_source |-> "mock_data",
     status |-> "success"]

\* The call get_mock_stock_quote(sym) made with generator state g on day now.
\* raised: the division for change_percent had a zero divisor.
\* used: how many values the call took from the generator.
get_mock_stock_quote(cat, sym, g, now) ==
    LET symbol == upper(sym) IN
    IF InCatalog(cat, symbol)
    THEN LET base_data == Entry(cat, symbol)
             varied_price == MulDiv(base_data.price, 10000 + price_variation(Draw(g, 0)), 10000)
             varied_change == base_data.change + change_variation(Draw(g, 1))
             volume == base_data.volume + randint(-1000000, 1000000, Draw(g, 2))
         IN  IF varied_price - varied_change = 0
             THEN [raised |-> TRUE, used |-> 2]
             ELSE [raised |-> FALSE, used |-> 3,
                   data |-> mock_quote_fields(symbol, base_data.name, varied_price,
                                varied_change, volume, base_data.market_cap, now)]
    ELSE LET base_price == unknown_base_price(Draw(g, 0))
             change == unknown_change(Draw(g, 1))
             volume == randint(1000000, 50000000, Draw(g, 2))
             market_cap == randint(10000, 500000, Draw(g, 3))
         IN  IF base_price - change = 0
             THEN [raised |-> TRUE, used |-> 2]
             ELSE [raised |-> FALSE, used |-> 4,
                   data |-> mock_quote_fields(symbol, symbol \o chars_Corporation,
                                base_price, change, volume, market_cap, now)]

\* ------------------------------------------------- try_live_stock_quote
\* dict.get(key, default)
get(v, default) == IF v = Missing THEN default ELSE v

\* x > 0 on a float: NaN compares false, +Infinity true
fgt0(x) == IF x = NaN THEN FALSE ELSE IF x = PosInf THEN TRUE ELSE x > 0

\* truth value of a JSON value: absent, null, zero and the empty string are falsy
truthy(v) == v \notin {Missing, Null, 0}

\* an attempt that did not produce a payload: the exchange raised (transport
\* error, timeout), the status was not 200, the body was not JSON or not of
\* the expected shape, or reading it raised; the except clause only prints
Failed == [ok |-> FALSE, outcome |-> "failed"]

yahoo_quote_fields(symbol, meta, current_price, previous_close, now) ==
    LET change == fsub(current_price, previous_close)
        change_percent == IF previous_close # 0 THEN fpercent(change, previous_close) ELSE 0
    IN  [symbol |-> upper(symbol),
         name |-> upper(symbol),
         price |-> fround2(current_price),
         change |-> fround2(change),
         change_percent |-> change_percent,
         previous_close |-> round2(previous_close),
         open |-> round2(get(meta.regularMarketOpen, 0)),
         high |-> round2(get(meta.regularMarketDayHigh, 0)),
         low |-> round2(get(meta.regularMarketDayLow, 0)),
         volume |-> get(meta.regularMarketVolume, 0),
         market_cap |-> 0,
         currency |-> "USD",
         exchange |-> "",
         last_updated |-> now,
         data_source |-> "yahoo_finance",
         status |-> "success"]

\* first try block of try_live_stock_quote
try_yahoo_quote(symbol, resp, now) ==
    IF resp.kind # "ok" THEN Failed
    ELSE LET meta == resp.meta
             current_price == get(meta.regularMarketPrice, 0)
             previous_close == get(meta.previousClose, 0)
         IN  IF current_price = Null THEN Failed
             ELSE IF ~fgt0(current_price) THEN Failed
             ELSE IF Null \in {previous_close, meta.regularMarketOpen,
                               meta.regularMarketDayHigh, meta.regularMarketDayLow}
                  THEN Failed
             ELSE [ok |-> TRUE, outcome |-> "success",
                   data |-> yahoo_quote_fields(symbol, meta, current_price,
                                               previous_close, now)]

\* the provenance tag copied from the first block and not changed
alpha_quote_fields_tag_copied(symbol, quote, price, change, change_percent, now) ==
    [symbol |-> upper(symbol),
     name |-> upper(symbol) \o chars_Inc,
     price |-> fround2(price),
     change |-> round2(change),
     change_percent |-> change_percent,
     previous_close |-> fround2(fsub(price, change)),
     open |-> fround2(get(quote.open, price)),
     high |-> fround2(get(quote.high, price)),
     low |-> fround2(get(quote.low, price)),
     volume |-> get(quote.volume, 0),
     market_cap |-> 0,
     currency |-> "USD",
     exchange |-> "NASDAQ/NYSE",
     last_updated |-> get(quote.latest_trading_day, now),
     data_source |-> "yahoo_finance",
     status |-> "success"]

alpha_quote_fields(symbol, quote, price, change, change_percent, now) ==
    [symbol |-> upper(symbol),
     name |-> upper(symbol) \o chars_Inc,
     price |-> fround2(price),
     change |-> round2(change),
     change_percent |-> change_percent,
     previous_close |-> fround2(fsub(price, change)),
     open |-> fround2(get(quote.open, price)),
     high |-> fround2(get(quote.high, price)),
     low |-> fround2(get(quote.low, price)),
     volume |-> get(quote.volume, 0),
     market_cap |-> 0,
     currency |-> "USD",
     exchange |-> "NASDAQ/NYSE",
     last_updated |-> get(quote.latest_trading_day, now),
     data_source |-> "alpha_vantage",
     status |-> "success"]

\* second try block of try_live_stock_quote
try_alpha_quote(symbol, resp, now) ==
    IF resp.kind # "ok" THEN Failed
    ELSE LET quote == resp.quote IN
         IF ~truthy(quote.price) THEN Failed
         ELSE IF Garbage \in {quote.price, quote.change, quote.change_percent,
                              quote.open, quote.high, quote.low}
              THEN Failed
         ELSE [ok |-> TRUE, outcome |-> "success",
               data |-> alpha_quote_fields(symbol, quote, quote.price,
                            get(quote.change, 0),
                            round2(get(quote.change_percent, 0)), now)]

\* ------------------------------------------------------ live responses
FailureKinds == {"unavailable", "timeout", "http_error", "bad_json"}
NoBody(kind) == [kind |-> kind]

DayRanges ==
    { [open |-> Missing, high |-> Missing, low |-> Missing],
      [open |-> 1490000, high |-> 1512345, low |-> 1470000],
      [open |-> 1490000, high |-> 1400000, low |-> 1600000],
      [open |-> Null, high |-> 1512345, low |-> 1470000] }

YahooQuoteResponses ==
    { NoBody(k) : k \in FailureKinds \cup {"no_result"} } \cup
    { [kind |-> "ok",
       meta |-> [regularMarketPrice |-> p, previousClose |-> c,
                 regularMarketOpen |-> r.open, regularMarketDayHigh |-> r.high,
                 regularMarketDayLow |-> r.low, regularMarketVolume |-> 1000]] :
      p \in {Missing, Null, 0, 0 - 1501234, 40, 1501234, PosInf, NaN},
      c \in {Missing, 1480000},
      r \in DayRanges }

AlphaQuoteResponses ==
    { NoBody(k) : k \in FailureKinds } \cup
    { [kind |-> "ok",
       quote |-> [price |-> p, change |-> c, change_percent |-> Missing,
                  open |-> r.open, high |-> r.high, low |-> r.low,
                  volume |-> Missing, latest_trading_day |-> Missing]] :
      p \in {Missing, Garbage, 0, 0 - 1501234, 1501234, PosInf, NaN},
      c \in {Missing, 21234},
      r \in DayRanges \ {[open |-> Null, high |-> 1512345, low |-> 1470000]} }

Symbols == { Catalog[k].symbol : k \in 1..Len(Catalog) } \cup
           { <<"a","a","p","l">>, <<"Z","z">> }

\* --------------------------------------------------------- stock_history
\* datetime.fromtimestamp(t).strftime("%Y-%m-%d"): the calendar day of t
SecondsPerDay == 86400
date_of(timestamp) == timestamp \div SecondsPerDay

\* `x or 0`
or0(x) == IF truthy(x) THEN x ELSE 0

live_point(body, i) ==
    [date |-> date_of(body.timestamp[i]),
     open |-> round2(or0(body.open[i])),
     high |-> round2(or0(body.high[i])),
     low |-> round2(or0(body.low[i])),
     close |-> round2(or0(body.close[i])),
     volume |-> IF Len(body.volume) > 0 /\ truthy(body.volume[i])
                THEN body.volume[i] ELSE 0]

\* the entry at position i is turned into a point
live_keeps(body, i) == i <= Len(body.close) /\ body.close[i] # Null

\* subscripting a list of the entry raises IndexError or KeyError
live_raises(body, i) ==
    i > Len(body.open) \/ i > Len(body.high) \/ i > Len(body.low)
        \/ (Len(body.volume) > 0 /\ i > Len(body.volume))

\* the loop over enumerate(timestamps), from position i with acc built so far
RECURSIVE live_history(_, _, _)
live_history(body, i, acc) ==
    IF i > Len(body.timestamp) THEN [raised |-> FALSE, history |-> acc]
    ELSE IF ~live_keeps(body, i) THEN live_history(body, i + 1, acc)
    ELSE IF live_raises(body, i) THEN [raised |-> TRUE, history |-> acc]
    ELSE live_history(body, i + 1, Append(acc, live_point(body, i)))

start_price_of(hist) == hist[1].close
\* history[0] in place of history[-1]
end_price_of_first(hist) == hist[1].close
end_price_of(hist) == hist[Len(hist)].close
\* round(((end_price - start_price) / start_price) * 100, 2), start_price # 0
total_return_percent(start, end) == RoundRatio(end - start, start, 4)

history_fields(symbol, period, hist, data_source) ==
    [symbol |-> upper(symbol),
     period |-> period,
     history |-> hist,
     total_return_percent |-> total_return_percent(start_price_of(hist), end_price_of(hist)),
     data_points |-> Len(hist),
     start_price |-> start_price_of(hist),
     end_price |-> end_price_of(hist),
     data_source |-> data_source,
     status |-> "success"]

\* the inner try block of stock_history
try_live_history(symbol, period, resp) ==
    IF resp.kind # "ok" THEN Failed
    ELSE LET h == live_history(resp.body, 1, <<>>) IN
         IF h.raised THEN Failed
         ELSE IF Len(h.history) = 0 THEN Failed
         ELSE IF start_price_of(h.history) = 0 THEN Failed
         ELSE [ok |-> TRUE, outcome |-> "success",
               data |-> history_fields(symbol, period, h.history, "yahoo_finance")]

\* days_map.get(request.period, 0): no day for a period the table lacks
days_map_default_zero(period) ==
    CASE period = "1d" -> 1
      [] period = "5d" -> 5
      [] period = "1mo" -> 30
      [] period = "3mo" -> 90
      [] period = "6mo" -> 180
      [] period = "1y" -> 365
      [] OTHER -> 0

\* days_map.get(request.period, 30)
days_map(period) ==
    CASE period = "1d" -> 1
      [] period = "5d" -> 5
      [] period = "1mo" -> 30
      [] period = "3mo" -> 90
      [] period = "6mo" -> 180
      [] period = "1y" -> 365
      [] OTHER -> 30

\* (datetime.now() - timedelta(days=days-i-1)).strftime("%Y-%m-%d")
mock_date(now, ndays, i) == now - (ndays - i - 1)

\* the price of day i: the first day varies the quote's price by up to 10%,
\* a later day moves the previous close by daily_change
mock_first_price(start, u) == MulDiv(start, 10000 + uniform(-1000, 1000, u), 10000)
mock_next_price(prev_close, u) == MulDiv(prev_close, 10000 + uniform(-300, 300, u), 10000)
mock_day_high(price, u) == MulDiv(price, 10000 + uniform(0, 200, u), 10000)
mock_day_low(price, u) == MulDiv(price, 10000 - uniform(0, 200, u), 10000)
mock_day_open(price, u) == MulDiv(price, 10000 + uniform(-100, 100, u), 10000)

\* one pass of the loop `for i in range(days)` with generator state g;
\* the first pass takes one more value from the generator than the others
mock_day(hist, start, ndays, g, now) ==
    LET i == Len(hist)
        k == IF i = 0 THEN 2 ELSE 1
        price == IF i = 0 THEN mock_first_price(start, Draw(g, 1))
                 ELSE mock_next_price(hist[Len(hist)].close, Draw(g, 0))
    IN  [used |-> k + 4,
         point |-> [date |-> mock_date(now, ndays, i),
                    open |-> round2(mock_day_open(price, Draw(g, k + 2))),
                    high |-> round2(mock_day_high(price, Draw(g, k))),
                    low |-> round2(mock_day_low(price, Draw(g, k + 1))),
                    close |-> round2(price),
                    volume |-> randint(1000000, 20000000, Draw(g, k + 3))]]

\* ---------------------------------------------------------- stock_search
\* keys of a search entry hold text, and an absent key is marked by NoText
\* (a name or symbol, kept as characters) or NoStr (an opaque string)
NoText == <<"<absent>">>
NoStr == "<absent>"
gettext(v, default) == IF v = NoText THEN default ELSE v
getstr(v, default) == IF v = NoStr THEN default ELSE v

search_result(quote) ==
    [symbol |-> gettext(quote.symbol, <<>>),
     name |-> gettext(quote.longname, gettext(quote.shortname, <<>>)),
     exchange |-> getstr(quote.exchange, ""),
     type |-> getstr(quote.quoteType, ""),
     sector |-> getstr(quote.sector, "")]

\* quote.get("quoteType") in ["EQUITY", "ETF"]
allowed_type(quote) == quote.quoteType \in {"EQUITY", "ETF"}

\* the loop over data.get("quotes", []), from position i
RECURSIVE live_results(_, _, _)
live_results(quotes, i, results) ==
    IF i > Len(quotes) THEN results
    ELSE IF allowed_type(quotes[i]) /\ Len(results) < 10
         THEN live_results(quotes, i + 1, Append(results, search_result(quotes[i])))
         ELSE live_results(quotes, i + 1, results)

search_fields(query, results, data_source) ==
    [query |-> query,
     results |-> results,
     count |-> Len(results),
     data_source |-> data_source,
     status |-> "success"]

\* the inner try block without the test `if results:`
try_live_search_returns_empty(query, resp) ==
    IF resp.kind # "ok" THEN Failed
    ELSE LET results == live_results(resp.quotes, 1, <<>>) IN
         [ok |-> TRUE, outcome |-> "success",
          data |-> search_fields(query, results, "yahoo_finance")]

\* the inner try block of stock_search
try_live_search(query, resp) ==
    IF resp.kind # "ok" THEN Failed
    ELSE LET results == live_results(resp.quotes, 1, <<>>) IN
         IF Len(results) = 0 THEN Failed
         ELSE [ok |-> TRUE, outcome |-> "success",
               data |-> search_fields(query, results, "yahoo_finance")]

\* the search looks at the names only
mock_matches_name_only(query_lower, entry) == contains(query_lower, lower(entry.name))

\* query_lower in data["name"].lower() or query_lower in symbol.lower()
mock_matches(query_lower, entry) ==
    contains(query_lower, lower(entry.name)) \/ contains(query_lower, lower(entry.symbol))

mock_result(entry) ==
    [symbol |-> entry.symbol,
     name |-> entry.name,
     exchange |-> "NASDAQ",
     type |-> "EQUITY",
     sector |-> "Technology"]

\* the loop over MOCK_STOCK_DATA.items(), from position i
RECURSIVE mock_results(_, _, _, _)
mock_results(cat, query_lower, i, results) ==
    IF i > Len(cat) THEN results
    ELSE IF mock_matches(query_lower, cat[i])
         THEN mock_results(cat, query_lower, i + 1, Append(results, mock_result(cat[i])))
         ELSE mock_results(cat, query_lower, i + 1, results)

\* mock_results[:10]
first10(results) == SubSeq(results, 1, IF Len(results) < 10 THEN Len(results) ELSE 10)

mock_search(cat, query) ==
    LET found == first10(mock_results(cat, lower(query), 1, <<>>)) IN
    [f \in DOMAIN search_fields(query, found, "mock_data") \cup {"note"} |->
        IF f = "note"
        THEN "Live data unavailable - showing mock results for demonstration"
        ELSE search_fields(query, found, "mock_data")[f]]

\* -------------------------------------------- live history and search bodies
Periods == {"1d", "5d", "2w"}
HistorySymbols == { <<"a","a","p","l">>, <<"Z","z">> }

\* what one entry of a live history response may look like
BarShapes ==
    { [nulls |-> n, close |-> c] :
        n \in {"none", "open", "high", "low"}, c \in {"null", "price"} }

bar_close(i) == 1000000 + 101234 * i
bar_field(shape, field, i, offset) ==
    IF shape.nulls = field THEN Null ELSE bar_close(i) + offset

history_body(shapes) ==
    [timestamp |-> [i \in 1..Len(shapes) |-> (20000 + i) * SecondsPerDay + 34200],
     open |-> [i \in 1..Len(shapes) |-> bar_field(shapes[i], "open", i, 0 - 5000)],
     high |-> [i \in 1..Len(shapes) |-> bar_field(shapes[i], "high", i, 12000)],
     low |-> [i \in 1..Len(shapes) |-> bar_field(shapes[i], "low", i, 0 - 12000)],
     close |-> [i \in 1..Len(shapes) |->
                  IF shapes[i].close = "null" THEN Null ELSE bar_close(i)],
     volume |-> [i \in 1..Len(shapes) |-> 5000 * i]]

full_body == history_body([i \in 1..MaxBars |-> [nulls |-> "none", close |-> "price"]])

\* bodies of every shape, and bodies whose lists are shorter than the
\* timestamps, absent, or hold a zero close
HistoryResponses ==
    { NoBody(k) : k \in FailureKinds } \cup
    { [kind |-> "ok", body |-> history_body(shapes)] :
        shapes \in UNION { [1..n -> BarShapes] : n \in 0..MaxBars } } \cup
    { [kind |-> "ok", body |-> [full_body EXCEPT !.close = SubSeq(@, 1, Len(@) - 1)]],
      [kind |-> "ok", body |-> [full_body EXCEPT !.open = <<>>]],
      [kind |-> "ok", body |-> [full_body EXCEPT !.volume = <<>>]],
      [kind |-> "ok", body |-> [full_body EXCEPT !.close[1] = 0]],
      [kind |-> "ok", body |-> [full_body EXCEPT !.close[MaxBars] = 0]] }

QuoteEntries ==
    { [quoteType |-> "EQUITY", symbol |-> <<"A","A","P","L">>, longname |-> <<"A","p","p","l","e"," ","I","n","c",".">>,
       shortname |-> NoText, exchange |-> "NMS", sector |-> NoStr],
      [quoteType |-> "ETF", symbol |-> <<"S","P","Y">>, longname |-> NoText,
       shortname |-> <<"S","P","D","R"," ","S","&","P"," ","5","0","0">>, exchange |-> "PCX", sector |-> NoStr],
      [quoteType |-> "OPTION", symbol |-> <<"A","A","P","L">>, longname |-> NoText,
       shortname |-> NoText, exchange |-> "OPR", sector |-> NoStr],
      [quoteType |-> NoStr, symbol |-> NoText, longname |-> NoText,
       shortname |-> NoText, exchange |-> NoStr, sector |-> NoStr] }

\* a long body: every third entry is not an allowed type
long_quotes(n) ==
    [i \in 1..n |->
        [quoteType |-> IF i % 3 = 0 THEN "OPTION" ELSE IF i % 3 = 1 THEN "EQUITY" ELSE "ETF",
         symbol |-> <<"S", Uppers[((i - 1) % 26) + 1]>>,
         longname |-> NoText, shortname |-> NoText,
         exchange |-> "NMS", sector |-> NoStr]]

SearchResponses ==
    { NoBody(k) : k \in FailureKinds } \cup
    { [kind |-> "ok", quotes |-> q] :
        q \in UNION { [1..n -> QuoteEntries] : n \in 0..MaxQuotes } } \cup
    { [kind |-> "ok", quotes |-> long_quotes(n)] : n \in {14 + MaxQuotes, 15 + MaxQuotes} }

Queries == { <<"a","p","p","l","e">>, <<"I","n","c">>, <<"n","v","d","a">>, <<"z","z","z","z","N","o","M","a","t","c","h">>, <<>> }

\* ----------------------------------------------------------------- state
VARIABLES
    MOCK_STOCK_DATA,  \* the module-level catalog
    rng,              \* state of the module-level random generator
    today,            \* the last reading of datetime.now(), as a day number
    pc,               \* where the handler of the current request stands
    request,          \* the request being served
    response,         \* the live response that was accepted; stock_search: the one read
    attempts,         \* the providers tried for this request, with outcomes
    days,             \* stock_history: number of days to generate
    start_price,      \* stock_history: price of the mock quote it starts from
    history,          \* stock_history: the list being built by the mock loop
    result,           \* what the handler returned
    served            \* whether a request has been completed before (0 or 1)

vars == <<MOCK_STOCK_DATA, rng, today, pc, request, response, attempts,
          days, start_price, history, result, served>>

NoRequest == [op |-> "none"]
NoResponse == [kind |-> "none"]
NoResult == [kind |-> "none"]
Returned(data) == [kind |-> "ok", data |-> data]
\* the handler's `except Exception` clause: HTTPException(status_code=500)
HTTPException == [kind |-> "error", status_code |-> 500]

\* the values datetime.now() may return next: the clock never runs backwards
Nows == { d \in today..MaxToday : d <= today + 1 }

Attempt(provider, outcome) == [provider |-> provider, outcome |-> outcome]

Init ==
    /\ MOCK_STOCK_DATA = Catalog
    /\ rng \in { [stream |-> s, pos |-> 0] : s \in 1..Len(Streams) }
    /\ today = 0
    /\ pc = "idle"
    /\ request = NoRequest
    /\ response = NoResponse
    /\ attempts = <<>>
    /\ days = 0
    /\ start_price = 0
    /\ history = <<>>
    /\ result = NoResult
    /\ served = 0

\* ------------------------------------------------------------ stock_quote
StartQuote(symbol) ==
    /\ pc = "idle"
    /\ pc' = "quote_yahoo"
    /\ request' = [op |-> "quote", symbol |-> symbol]
    /\ UNCHANGED <<MOCK_STOCK_DATA, rng, today, response, attempts, days,
                   start_price, history, result, served>>

\* try_live_stock_quote, the Yahoo Finance attempt
QuoteYahoo(resp, now) ==
    /\ pc = "quote_yahoo"
    /\ LET r == try_yahoo_quote(request.symbol, resp, now) IN
       /\ attempts' = Append(attempts, Attempt("yahoo_finance", r.outcome))
       /\ IF r.ok
          THEN /\ result' = Returned(r.data)
               /\ response' = resp
               /\ today' = now
               /\ pc' = "done"
          ELSE /\ pc' = "quote_alpha"
               /\ UNCHANGED <<result, response, today>>
    /\ UNCHANGED <<MOCK_STOCK_DATA, rng, request, days, start_price, history, served>>

\* try_live_stock_quote, the Alpha Vantage attempt
QuoteAlpha(resp, now) ==
    /\ pc = "quote_alpha"
    /\ LET r == try_alpha_quote(request.symbol, resp, now) IN
       /\ attempts' = Append(attempts, Attempt("alpha_vantage", r.outcome))
       /\ IF r.ok
          THEN /\ result' = Returned(r.data)
               /\ response' = resp
               /\ today' = now
               /\ pc' = "done"
          ELSE /\ pc' = "quote_mock"
               /\ UNCHANGED <<result, response, today>>
    /\ UNCHANGED <<MOCK_STOCK_DATA, rng, request, days, start_price, history, served>>

mock_note == "Live data unavailable - showing mock data for demonstration"

\* stock_quote, the fallback to get_mock_stock_quote
QuoteMock(now) ==
    /\ pc = "quote_mock"
    /\ LET m == get_mock_stock_quote(MOCK_STOCK_DATA, request.symbol, rng, now) IN
       /\ rng' = Advance(rng, m.used)
       /\ attempts' = Append(attempts,
              Attempt("mock_data", IF m.raised THEN "raised" ELSE "success"))
       /\ IF m.raised
          THEN /\ result' = HTTPException
               /\ UNCHANGED today
          ELSE /\ result' = Returned([f \in DOMAIN m.data \cup {"note"} |->
                                IF f = "note" THEN mock_note ELSE m.data[f]])
               /\ today' = now
    /\ pc' = "done"
    /\ UNCHANGED <<MOCK_STOCK_DATA, request, response, days, start_price, history,
                   served>>

\* ---------------------------------------------------------- stock_history
StartHistory(symbol, period) ==
    /\ pc = "idle"
    /\ pc' = "history_yahoo"
    /\ request' = [op |-> "history", symbol |-> symbol, period |-> period]
    /\ UNCHANGED <<MOCK_STOCK_DATA, rng, today, response, attempts, days,
                   start_price, history, result, served>>

\* the live attempt of stock_history
HistoryYahoo(resp) ==
    /\ pc = "history_yahoo"
    /\ LET r == try_live_history(request.symbol, request.period, resp) IN
       /\ attempts' = Append(attempts, Attempt("yahoo_finance", r.outcome))
       /\ IF r.ok
          THEN /\ result' = Returned(r.data)
               /\ response' = resp
               /\ pc' = "done"
          ELSE /\ pc' = "history_mock"
               /\ UNCHANGED <<result, response>>
    /\ UNCHANGED <<MOCK_STOCK_DATA, rng, today, request, days, start_price,
                   history, served>>

\* the mock path up to the loop: days_map and the mock quote to start from
HistoryMock(now) ==
    /\ pc = "history_mock"
    /\ LET m == get_mock_stock_quote(MOCK_STOCK_DATA, request.symbol, rng, now) IN
       /\ rng' = Advance(rng, m.used)
       /\ days' = days_map(request.period)
       /\ history' = <<>>
       /\ IF m.raised
          THEN /\ result' = HTTPException
               /\ attempts' = Append(attempts, Attempt("mock_data", "raised"))
               /\ pc' = "done"
               /\ UNCHANGED <<start_price, today>>
          ELSE /\ start_price' = m.data.price
               /\ today' = now
               /\ pc' = "history_loop"
               /\ UNCHANGED <<result, attempts>>
    /\ UNCHANGED <<MOCK_STOCK_DATA, request, response, served>>

\* one pass of the mock loop
HistoryMockDay(now) ==
    /\ pc = "history_loop"
    /\ Len(history) < days
    /\ LET d == mock_day(history, start_price, days, rng, now) IN
       /\ history' = Append(history, d.point)
       /\ rng' = Advance(rng, d.used)
    /\ today' = now
    /\ UNCHANGED <<MOCK_STOCK_DATA, pc, request, response, attempts, days,
                   start_price, result, served>>

\* after the loop: the aggregates and the returned series.  history[0] of an
\* empty list and a zero start price raise, which the handler turns into 500.
HistoryMockReturn ==
    /\ pc = "history_loop"
    /\ Len(history) = days
    /\ LET raised == Len(history) = 0 \/ start_price_of(history) = 0
           data == history_fields(request.symbol, request.period, history, "mock_data")
       IN
       /\ attempts' = Append(attempts,
              Attempt("mock_data", IF raised THEN "raised" ELSE "success"))
       /\ result' = IF raised THEN HTTPException
                    ELSE Returned([f \in DOMAIN data \cup {"note"} |->
                                      IF f = "note" THEN mock_note ELSE data[f]])
    /\ pc' = "done"
    /\ UNCHANGED <<MOCK_STOCK_DATA, rng, today, request, response, days,
                   start_price, history, served>>

\* ----------------------------------------------------------- stock_search
StartSearch(query) ==
    /\ pc = "idle"
    /\ pc' = "search_yahoo"
    /\ request' = [op |-> "search", query |-> query]
    /\ UNCHANGED <<MOCK_STOCK_DATA, rng, today, response, attempts, days,
                   start_price, history, result, served>>

\* the live attempt of stock_search
SearchYahoo(resp) ==
    /\ pc = "search_yahoo"
    /\ LET r == try_live_search(request.query, resp) IN
       /\ attempts' = Append(attempts, Attempt("yahoo_finance", r.outcome))
       /\ response' = resp
       /\ IF r.ok
          THEN /\ result' = Returned(r.data)
               /\ pc' = "done"
          ELSE /\ pc' = "search_mock"
               /\ UNCHANGED result
    /\ UNCHANGED <<MOCK_STOCK_DATA, rng, today, request, days, start_price,
                   history, served>>

\* the fallback search through MOCK_STOCK_DATA
SearchMock ==
    /\ pc = "search_mock"
    /\ attempts' = Append(attempts, Attempt("mock_data", "success"))
    /\ result' = Returned(mock_search(MOCK_STOCK_DATA, request.query))
    /\ pc' = "done"
    /\ UNCHANGED <<MOCK_STOCK_DATA, rng, today, request, response, days,
                   start_price, history, served>>

\* the response is serialized and every per-request object is discarded
Return ==
    /\ pc = "done"
    /\ pc' = "idle"
    /\ served' = 1
    /\ request' = NoRequest
    /\ response' = NoResponse
    /\ attempts' = <<>>
    /\ days' = 0
    /\ start_price' = 0
    /\ history' = <<>>
    /\ result' = NoResult
    /\ UNCHANGED <<MOCK_STOCK_DATA, rng, today>>

Next ==
    \/ \E symbol \in Symbols : StartQuote(symbol)
    \/ \E resp \in YahooQuoteResponses, now \in Nows : QuoteYahoo(resp, now)
    \/ \E resp \in AlphaQuoteResponses, now \in Nows : QuoteAlpha(resp, now)
    \/ \E now \in Nows : QuoteMock(now)
    \/ \E symbol \in HistorySymbols, period \in Periods : StartHistory(symbol, period)
    \/ \E resp \in HistoryResponses : HistoryYahoo(resp)
    \/ \E now \in Nows : HistoryMock(now)
    \/ \E now \in Nows : HistoryMockDay(now)
    \/ HistoryMockReturn
    \/ \E query \in Queries : StartSearch(query)
    \/ \E resp \in SearchResponses : SearchYahoo(resp)
    \/ SearchMock
    \/ Return

Spec == Init /\ [][Next]_vars

\* The same handler when every live quote provider fails and the only
\* request made is get_quote("AAPL"), in any spelling that symbol.upper()
\* turns into AAPL.
LiveFailures == { NoBody(k) : k \in FailureKinds }
FallbackSymbols == { s \in Symbols : upper(s) = <<"A","A","P","L">> }

NextFallback ==
    \/ \E symbol \in FallbackSymbols : StartQuote(symbol)
    \/ \E resp \in LiveFailures, now \in Nows : QuoteYahoo(resp, now)
    \/ \E resp \in LiveFailures, now \in Nows : QuoteAlpha(resp, now)
    \/ \E now \in Nows : QuoteMock(now)
    \/ Return

SpecFallback == Init /\ [][NextFallback]_vars

\* ================================================================ claims
op == request.op
Answered == pc = "done" /\ result.kind = "ok"
LiveTags == {"yahoo_finance", "alpha_vantage"}
FailureOutcomes == {"failed"}

\* the order in which each endpoint tries its providers
Chain(o) ==
    IF o = "quote" THEN <<"yahoo_finance", "alpha_vantage", "mock_data">>
    ELSE <<"yahoo_finance", "mock_data">>

\* C1: within one request the providers are tried one after another in the
\* fixed order of the endpoint, each at most once, a later one only after
\* every earlier one ended without success; the payload returned is the one
\* of the first provider that succeeded and data_source names that provider.
C1_ProviderOrder ==
    pc # "idle" =>
        /\ Len(attempts) <= Len(Chain(op))
        /\ \A k \in 1..Len(attempts) : attempts[k].provider = Chain(op)[k]
        /\ \A k \in 1..(Len(attempts) - 1) : attempts[k].outcome \in FailureOutcomes
        /\ pc # "done" =>
              \A k \in 1..Len(attempts) : attempts[k].outcome \in FailureOutcomes
        /\ Answered =>
              /\ Len(attempts) > 0
              /\ attempts[Len(attempts)].outcome = "success"
              /\ result.data.data_source = attempts[Len(attempts)].provider
              /\ result.data.data_source \in LiveTags => response.kind = "ok"

\* C1 witness: the second live quote provider answered after the first failed
C1_Witness ==
    /\ Answered /\ op = "quote"
    /\ Len(attempts) = 2
    /\ attempts[1].outcome = "failed"
    /\ result.data.data_source = "alpha_vantage"

\* C2: whatever the live providers do and whatever the symbol, query and
\* period are, the three endpoints end by returning status = success; no
\* live failure reaches the caller as an error.
C2_AlwaysSuccess ==
    /\ result.kind # "error"
    /\ pc = "done" => result.kind = "ok" /\ result.data.status = "success"

\* C2 witness: a history request for a period outside the table, whose live
\* attempt failed, was answered by the mock generator
C2_Witness ==
    /\ Answered /\ op = "history"
    /\ request.period = "2w"
    /\ attempts[1].outcome = "failed"
    /\ result.data.data_source = "mock_data"

IsFinitePositive(x) == ~IsSpecial(x) /\ x > 0

\* the price the accepted live response carried
UpstreamPrice ==
    IF result.data.data_source = "yahoo_finance"
    THEN get(response.meta.regularMarketPrice, 0)
    ELSE response.quote.price

\* C3: a live quote is accepted and returned only if the price of the live
\* response is a finite positive number; a response whose price is zero,
\* negative or not finite falls through to the next provider.
C3_LivePricePositive ==
    (Answered /\ op = "quote" /\ result.data.data_source \in LiveTags)
        => IsFinitePositive(UpstreamPrice)

NonNull(x) == x \notin {Null, Missing}

\* C4: a live history is returned only if it has at least one point, and no
\* point of it stands for an upstream entry whose open, high, low or close
\* was missing or null.
C4_LiveHistoryComplete ==
    (Answered /\ op = "history" /\ result.data.data_source = "yahoo_finance") =>
        /\ Len(result.data.history) >= 1
        /\ \A i \in 1..Len(response.body.timestamp) :
              live_keeps(response.body, i) =>
                  /\ NonNull(response.body.open[i])
                  /\ NonNull(response.body.high[i])
                  /\ NonNull(response.body.low[i])
                  /\ NonNull(response.body.close[i])

min2(a, b) == IF a < b THEN a ELSE b
max2(a, b) == IF a > b THEN a ELSE b

InMockHistory == op = "history" /\ pc \in {"history_loop", "done"} /\ days > 0

\* C5: every point of every synthesized history has low <= min(open, close)
\* and high >= max(open, close).
C5_MockPointOrdered ==
    InMockHistory =>
        \A k \in 1..Len(history) :
            /\ history[k].low <= min2(history[k].open, history[k].close)
            /\ history[k].high >= max2(history[k].open, history[k].close)

MockQuoteOfCatalog ==
    /\ Answered /\ op = "quote"
    /\ result.data.data_source = "mock_data"
    /\ InCatalog(MOCK_STOCK_DATA, result.data.symbol)

\* C6: for every symbol of the catalog and every perturbation the mock quote
\* has, after rounding to two decimals, high >= max(open, price, low) and
\* low <= min(open, price, high).
C6_MockQuoteOrdered ==
    MockQuoteOfCatalog =>
        LET q == result.data IN
        /\ q.high >= max2(max2(q.open, q.price), q.low)
        /\ q.low <= min2(min2(q.open, q.price), q.high)

\* C6 witness: a mock quote of a catalog symbol whose change is negative, so
\* that open lies above the price
C6_Witness ==
    /\ MockQuoteOfCatalog
    /\ result.data.change < 0
    /\ result.data.open > result.data.price
    /\ result.data.high > result.data.open

MockHistoryAnswered ==
    Answered /\ op = "history" /\ result.data.data_source = "mock_data"

PeriodDays(p) ==
    IF p = "1d" THEN 1 ELSE IF p = "5d" THEN 5 ELSE IF p = "1mo" THEN 30
    ELSE IF p = "3mo" THEN 90 ELSE IF p = "6mo" THEN 180
    ELSE IF p = "1y" THEN 365 ELSE 30

\* C7: a synthesized history for period p has exactly N points (1, 5, 30, 90,
\* 180, 365 for 1d, 5d, 1mo, 3mo, 6mo, 1y and 30 for any other period) and
\* its dates are consecutive calendar days, oldest first, ending today.
C7_MockHistoryDates ==
    MockHistoryAnswered =>
        LET h == result.data.history IN
        /\ Len(h) = PeriodDays(request.period)
        /\ \A k \in 1..(Len(h) - 1) : h[k + 1].date = h[k].date + 1
        /\ h[Len(h)].date = today

\* the number of points alone (the part of C7 the code keeps)
C7_MockHistoryLength ==
    MockHistoryAnswered => Len(result.data.history) = PeriodDays(request.period)

\* C8: for every returned history, live or synthesized, start_price is the
\* first close, end_price the last close, data_points the number of points
\* and total_return_percent is (end_price - start_price) / start_price * 100
\* to two decimals.  Closes are whole cents, so the comparison is in cents.
C8_AggregatesFromSeries ==
    (Answered /\ op = "history") =>
        LET d == result.data
            h == d.history
            s == h[1].close \div 100
            e == h[Len(h)].close \div 100
        IN
        /\ d.start_price = h[1].close
        /\ d.end_price = h[Len(h)].close
        /\ d.data_points = Len(h)
        /\ 2 * abs(d.total_return_percent * s - (e - s) * 10000) <= abs(s)

\* C8 witness: a synthesized series of several points whose first and last
\* close differ, and whose first open is not its first close
C8_Witness ==
    /\ MockHistoryAnswered
    /\ result.data.data_points = 5
    /\ result.data.total_return_percent # 0
    /\ result.data.history[1].open # result.data.history[1].close
    /\ result.data.history[5].open # result.data.history[5].close

\* a live series whose first and last close differ
C8_LiveReached ==
    /\ Answered /\ op = "history" /\ result.data.data_source = "yahoo_finance"
    /\ result.data.total_return_percent # 0

\* case-insensitive equality of two characters, by their upper-case forms
SameLetter(a, b) == upper(<<a>>) = upper(<<b>>)
OccursIn(q, text) ==
    \E off \in 0..(Len(text) - Len(q)) :
        \A k \in 1..Len(q) : SameLetter(text[off + k], q[k])
Matching(q) ==
    { k \in 1..Len(Catalog) :
        OccursIn(q, Catalog[k].symbol) \/ OccursIn(q, Catalog[k].name) }
FallbackSearchAnswered ==
    Answered /\ op = "search" /\ result.data.data_source = "mock_data"

\* C9: when the live search does not succeed, the results are exactly the
\* catalog entries whose symbol or name contains the query, ignoring case, in
\* catalog order and at most 10, each with exchange NASDAQ and sector
\* Technology; count is their number and status is success; a query without
\* a match gives no result and count 0; "apple" gives exactly AAPL, Apple Inc.
C9_FallbackSearch ==
    FallbackSearchAnswered =>
        LET d == result.data
            r == d.results
            m == Matching(request.query)
        IN
        /\ d.status = "success"
        /\ d.count = Len(r)
        /\ Len(r) = min2(Cardinality(m), 10)
        /\ \A j \in 1..Len(r) :
              \E k \in m :
                 /\ r[j].symbol = Catalog[k].symbol
                 /\ r[j].name = Catalog[k].name
                 /\ r[j].exchange = "NASDAQ"
                 /\ r[j].sector = "Technology"
                 /\ Cardinality({ k2 \in m : k2 < k }) = j - 1
        /\ request.query = <<"z","z","z","z","N","o","M","a","t","c","h">> => (r = <<>> /\ d.count = 0)
        /\ request.query = <<"a","p","p","l","e">> =>
              (Len(r) = 1 /\ r[1].symbol = <<"A","A","P","L">> /\ r[1].name = <<"A","p","p","l","e"," ","I","n","c",".">>)

\* C9 witness: a query that matches by symbol only, written in lower case
C9_Witness ==
    /\ FallbackSearchAnswered
    /\ request.query = <<"n","v","d","a">>
    /\ result.data.count = 1

\* C9 witness for several matches kept in catalog order
C9_SeveralReached ==
    /\ FallbackSearchAnswered
    /\ request.query = <<"I","n","c">>
    /\ result.data.count = 8

\* C10 (under SpecFallback, where the live providers always fail): every
\* call get_quote("AAPL"), the first and any later one, returns data_source
\* mock_data (the synthetic provider's tag) and status success with a price
\* within 167.00 .. 184.00; a finished call leaves no request state and the
\* catalog is what it was at start.
C10_FallbackIdempotent ==
    /\ MOCK_STOCK_DATA = Catalog
    /\ pc = "idle" =>
          /\ request = NoRequest /\ response = NoResponse /\ result = NoResult
          /\ attempts = <<>> /\ history = <<>>
    /\ pc = "done" =>
          /\ result.kind = "ok"
          /\ result.data.data_source = "mock_data"
          /\ result.data.status = "success"
          /\ result.data.price >= 167 * Scale
          /\ result.data.price <= 184 * Scale

\* C10 witness: a call made after an earlier one was completed has been
\* answered, at the low end of the price variation
C10_Witness ==
    /\ served = 1
    /\ Answered /\ op = "quote"
    /\ result.data.data_source = "mock_data"
    /\ result.data.price < 172 * Scale

\* ---------------------------------------------------------------- C11
LiveQuoteAnswered ==
    Answered /\ op = "quote" /\ result.data.data_source \in LiveTags

Cent == Scale \div 100

\* no price field of the quote is an infinity or a NaN
QuoteFinite(q) ==
    \A x \in {q.price, q.change, q.previous_close, q.open, q.high, q.low} :
        ~IsSpecial(x)

\* change == price - previous_close, each of the three rounded to the cent
ChangeConsistent(q) == abs(q.change - (q.price - q.previous_close)) <= Cent

RangeOrdered(q) ==
    /\ q.high >= max2(max2(q.open, q.price), q.low)
    /\ q.low <= min2(min2(q.open, q.price), q.high)

\* C11: every quote returned with a live provenance tag (yahoo_finance or
\* alpha_vantage) has change equal to price - previous_close within a cent,
\* high >= max(open, price, low) and low <= min(open, price, high); a quote
\* with a NaN or an infinite field does not satisfy the comparisons.
C11_LiveQuoteInvariant ==
    LiveQuoteAnswered =>
        /\ QuoteFinite(result.data)
        /\ ChangeConsistent(result.data)
        /\ RangeOrdered(result.data)

\* the part of C11 on change: it holds of every live quote of finite fields
C11_ChangeConsistent ==
    (LiveQuoteAnswered /\ QuoteFinite(result.data)) =>
        ChangeConsistent(result.data)

\* the ordering part of C11 restricted to quotes whose upstream price is a
\* finite positive number
C11_FinitePriceOrdered ==
    (LiveQuoteAnswered /\ IsFinitePositive(UpstreamPrice)) =>
        RangeOrdered(result.data)

\* ---------------------------------------------------------------- C12
LiveSearchAnswered ==
    Answered /\ op = "search" /\ result.data.data_source = "yahoo_finance"

EquityOrFund == {"EQUITY", "ETF"}
IsEquityOrFund(quote) == quote.quoteType \in EquityOrFund

\* the entries of the live response read for this search that are equities
\* or funds, in the order of the response
Surviving == SelectSeq(response.quotes, IsEquityOrFund)

\* the live attempt of this search read a 200 response
LiveSearchRead ==
    op = "search" /\ pc \in {"search_mock", "done"} /\ response.kind = "ok"

\* C12: a search response tagged yahoo_finance holds only results of type
\* EQUITY or ETF, at least one and at most 10 of them, which are the first
\* surviving entries of the live response in its order, and count is the
\* length of results; when a 200 live response has no surviving entry the
\* live attempt ends without a result and the answer is the one of the
\* catalog fallback.
C12_LiveSearch ==
    /\ LiveSearchAnswered =>
          LET results == result.data.results IN
          /\ Len(results) >= 1 /\ Len(results) <= 10
          /\ result.data.count = Len(results)
          /\ \A k \in 1..Len(results) : results[k].type \in EquityOrFund
          /\ Len(results) = min2(10, Len(Surviving))
          /\ \A k \in 1..Len(results) : results[k] = search_result(Surviving[k])
    /\ (LiveSearchRead /\ Len(Surviving) = 0) =>
          /\ attempts[1].outcome = "failed"
          /\ pc = "search_mock" => result = NoResult
          /\ pc = "done" => /\ result.kind = "ok"
                            /\ result.data.data_source = "mock_data"

\* C12 witness: a live answer of 10 results cut from a response with more
\* than 10 surviving entries, after a leading entry of another type
C12_Witness ==
    /\ LiveSearchAnswered
    /\ Len(Surviving) > 10
    /\ Len(Surviving) < Len(response.quotes)
    /\ result.data.count = 10

\* C12: a 200 response with entries, none of them surviving, was answered
\* from the catalog
C12_FellThrough ==
    /\ LiveSearchRead /\ pc = "done"
    /\ Len(response.quotes) > 0 /\ Len(Surviving) = 0
    /\ result.data.data_source = "mock_data"

====
